---------------------------- MODULE Spec2Model ----------------------------
(***************************************************************************)
(* Model of backend/main.py: the record reconciliation of search_papers    *)
(* (identifier merge, fuzzy-title deduplication, statistics), the          *)
(* SearchCache result cache and the export endpoint.                       *)
(*                                                                         *)
(* A Python str is a sequence of one-character tokens; a pandas DataFrame  *)
(* is a record [columns, rows] whose rows are functions from the column    *)
(* names to cells; an Optional value is <<>> (None) or <<v>>.              *)
(***************************************************************************)
EXTENDS Integers, Sequences, FiniteSets, TLC

(***************************************************************************)
(* Bounds of the model.                                                    *)
(***************************************************************************)
MaxTime == 3        \* the clock runs over 0..MaxTime (hours)
NClients == 2       \* concurrent HTTP clients
MaxA == 2           \* rows of the PubMed frame (source A)
MaxB == 2           \* rows of the Semantic Scholar frame (source B)
MaxTitleLen == 4    \* characters of a title handed to normalize_title

(***************************************************************************)
(* SearchCache(max_size, expiry_hours): the constructor's parameters, here *)
(* a small cache instead of the defaults 100 and 24.                       *)
(***************************************************************************)
max_size == 2
expiry_hours == 1

MaxPuts == max_size + 1   \* SearchCache.add calls per behaviour

Max(a, b) == IF a >= b THEN a ELSE b

(***************************************************************************)
(* Strings.                                                                *)
(***************************************************************************)
Str(n, c) == [i \in 1..n |-> c]

\* pandas' missing value in a cell, and str(NaN)
NaN == <<"#NaN">>
notna(v) == v /= NaN
str(v) == IF v = NaN THEN <<"n", "a", "n">> ELSE v

\* string.punctuation
punctuation ==
    {"!", "dquote", "#", "$", "%", "&", "squote", "(", ")", "*", "+", ",",
     "-", ".", "/", ":", ";", "<", "=", ">", "?", "@", "[", "backslash",
     "]", "^", "_", "backtick", "{", "|", "}", "~"}

\* str.lower on the characters of the model's alphabet
lower_char(c) ==
    CASE c = "A" -> "a"
      [] c = "B" -> "b"
      [] c = "C" -> "c"
      [] c = "N" -> "n"
      [] c = "Acirc" -> "acirc"
      [] OTHER -> c

lower(s) == [i \in 1..Len(s) |-> lower_char(s[i])]

\* s.translate(str.maketrans("", "", string.punctuation))
RECURSIVE strip_punctuation(_)
strip_punctuation(s) ==
    IF s = <<>> THEN <<>>
    ELSE IF Head(s) \in punctuation THEN strip_punctuation(Tail(s))
    ELSE <<Head(s)>> \o strip_punctuation(Tail(s))

\* s.replace(old, ""): the non-overlapping occurrences of old, left to right
RECURSIVE remove_all(_, _)
remove_all(s, old) ==
    IF Len(s) < Len(old) THEN s
    ELSE IF SubSeq(s, 1, Len(old)) = old
         THEN remove_all(SubSeq(s, Len(old) + 1, Len(s)), old)
         ELSE <<Head(s)>> \o remove_all(Tail(s), old)

\* the mis-encoded sequence of line 87: U+00E2 U+20AC
artifact == <<"acirc", "euro">>

normalize_title(title) ==
    remove_all(strip_punctuation(lower(str(title))), artifact)

(***************************************************************************)
(* fuzz.ratio (fuzzywuzzy): 100 for equal strings, 0 when one is empty,    *)
(* else round(100 * 2M/T) with M the matched characters (the longest       *)
(* common subsequence of the indel distance) and T the total length.       *)
(***************************************************************************)
RECURSIVE LcsRow(_, _, _, _, _)
LcsRow(prev, ch, b, j, acc) ==
    IF j > Len(b) THEN acc
    ELSE LET v == IF ch = b[j] THEN prev[j] + 1
                  ELSE Max(prev[j + 1], acc[j])
         IN  LcsRow(prev, ch, b, j + 1, Append(acc, v))

RECURSIVE LcsRows(_, _, _, _)
LcsRows(a, b, i, prev) ==
    IF i > Len(a) THEN prev[Len(b) + 1]
    ELSE LET row == LcsRow(prev, a[i], b, 1, <<0>>)
         IN  IF Len(row) > 0 THEN LcsRows(a, b, i + 1, row) ELSE 0

Lcs(a, b) == LcsRows(a, b, 1, [j \in 1..(Len(b) + 1) |-> 0])

\* int(round(p / q)), Python's round: halves go to the even neighbour
intr(p, q) ==
    LET fl == p \div q
        r2 == 2 * (p % q)
    IN  IF r2 > q THEN fl + 1
        ELSE IF r2 < q THEN fl
        ELSE IF fl % 2 = 0 THEN fl ELSE fl + 1

fuzz_ratio(s1, s2) ==
    IF s1 = s2 THEN 100
    ELSE IF Len(s1) = 0 \/ Len(s2) = 0 THEN 0
    ELSE intr(200 * Lcs(s1, s2), Len(s1) + Len(s2))

compare_paper_titles(title1, title2) ==
    fuzz_ratio(normalize_title(title1), normalize_title(title2)) >= 98

(***************************************************************************)
(* The titles of the model's records.  The normalized form of each title   *)
(* and the score of each pair are computed once and looked up afterwards.  *)
(***************************************************************************)
NA == <<"N", "/", "A">>

Title1 == Str(20, "a")
Title1x == <<"A">> \o Str(19, "a") \o <<"!">>
Title2 == Str(20, "a") \o <<"b">>
Title3 == Str(20, "a") \o <<"b", "c">>
Titles == {Title1, Title1x, Title2, Title3}

NormalizedTitles == {<<t, normalize_title(t)>> : t \in Titles}

Scores ==
    {<<p[1][2], p[2][2], fuzz_ratio(p[1][2], p[2][2])>> :
        p \in NormalizedTitles \X NormalizedTitles}

normalized(title) ==
    IF title \in Titles
    THEN (CHOOSE e \in NormalizedTitles : e[1] = title)[2]
    ELSE normalize_title(title)

score(s1, s2) ==
    IF \E e \in Scores : e[1] = s1 /\ e[2] = s2
    THEN (CHOOSE e \in Scores : e[1] = s1 /\ e[2] = s2)[3]
    ELSE fuzz_ratio(s1, s2)

(***************************************************************************)
(* DataFrames.                                                             *)
(***************************************************************************)
DataFrame(cols, rows) == [columns |-> cols, rows |-> rows]

\* pd.DataFrame() and pd.DataFrame([]): no columns, no rows
NoColumns == DataFrame({}, <<>>)

\* df.empty
empty(df) == df.columns = {} \/ Len(df.rows) = 0

RECURSIVE SelectRows(_, _, _)
SelectRows(rows, col, keep_na) ==
    IF rows = <<>> THEN <<>>
    ELSE IF (Head(rows)[col] = <<"N", "/", "A">>) = keep_na
         THEN <<Head(rows)>> \o SelectRows(Tail(rows), col, keep_na)
         ELSE SelectRows(Tail(rows), col, keep_na)

\* a row reindexed to the columns cols: NaN where it has no value
Reindex(row, cols) ==
    [c \in cols |-> IF c \in DOMAIN row THEN row[c] ELSE NaN]

\* pd.concat([df1, df2], ignore_index=True)
concat(df1, df2) ==
    LET cols == df1.columns \cup df2.columns
    IN  DataFrame(cols,
                  [i \in 1..Len(df1.rows) |-> Reindex(df1.rows[i], cols)] \o
                  [i \in 1..Len(df2.rows) |-> Reindex(df2.rows[i], cols)])

\* set(df[col].tolist())
ColumnSet(df, col) == {df.rows[i][col] : i \in 1..Len(df.rows)}

(***************************************************************************)
(* deduplicate_papers: the keep mask of the greedy pass.                   *)
(***************************************************************************)
\* the greedy pass without the test of line 358: a discarded candidate still
\* discards the later ones it matches
RECURSIVE keep_mask_from_discarded(_, _, _)
keep_mask_from_discarded(normalized_titles, i, mask) ==
    IF i > Len(normalized_titles) THEN mask
    ELSE keep_mask_from_discarded(normalized_titles, i + 1,
             [j \in 1..Len(mask) |->
                 IF j > i /\ score(normalized_titles[i],
                                   normalized_titles[j]) >= 98
                 THEN FALSE ELSE mask[j]])

RECURSIVE keep_mask(_, _, _)
keep_mask(normalized_titles, i, mask) ==
    IF i > Len(normalized_titles) THEN mask
    ELSE IF mask[i]
         THEN keep_mask(normalized_titles, i + 1,
                  [j \in 1..Len(mask) |->
                      IF j > i /\ score(normalized_titles[i],
                                        normalized_titles[j]) >= 98
                      THEN FALSE ELSE mask[j]])
         ELSE keep_mask(normalized_titles, i + 1, mask)

RECURSIVE MaskRows(_, _)
MaskRows(rows, mask) ==
    IF rows = <<>> THEN <<>>
    ELSE IF Head(mask) THEN <<Head(rows)>> \o MaskRows(Tail(rows), Tail(mask))
         ELSE MaskRows(Tail(rows), Tail(mask))

\* deduplicate_papers without line 349: the titles are compared as they are
deduplicate_papers_on_raw_titles(df) ==
    IF empty(df) THEN df
    ELSE LET mask == keep_mask([i \in 1..Len(df.rows) |-> df.rows[i]["title"]],
                               1, [i \in 1..Len(df.rows) |-> TRUE])
         IN  DataFrame(df.columns, MaskRows(df.rows, mask))

deduplicate_papers(df) ==
    IF empty(df) THEN df
    ELSE LET normalized_titles ==
                 [i \in 1..Len(df.rows) |-> normalized(df.rows[i]["title"])]
             mask == keep_mask(normalized_titles, 1,
                               [i \in 1..Len(df.rows) |-> TRUE])
         IN  DataFrame(df.columns, MaskRows(df.rows, mask))

(***************************************************************************)
(* pd.merge(pubmed_df, filtered_semantic_df, on="pmid", how="outer",       *)
(* suffixes=("_pubmed", "_semantic")): the union of the keys in            *)
(* lexicographic order, one row per pair of rows that share a key, and     *)
(* NaN on the side that has no row of the key.                             *)
(***************************************************************************)
ord(c) ==
    CASE c = "0" -> 48 [] c = "1" -> 49 [] c = "2" -> 50 [] c = "3" -> 51
      [] c = "4" -> 52 [] c = "5" -> 53 [] c = "6" -> 54 [] c = "7" -> 55
      [] c = "8" -> 56 [] c = "9" -> 57 [] c = "/" -> 47 [] c = "A" -> 65
      [] c = "N" -> 78 [] OTHER -> 97

RECURSIVE str_less(_, _)
str_less(s, t) ==
    IF t = <<>> THEN FALSE
    ELSE IF s = <<>> THEN TRUE
    ELSE IF ord(Head(s)) /= ord(Head(t)) THEN ord(Head(s)) < ord(Head(t))
    ELSE str_less(Tail(s), Tail(t))

RECURSIVE sorted_keys(_)
sorted_keys(S) ==
    IF S = {} THEN <<>>
    ELSE LET m == CHOOSE k \in S : \A o \in S : k = o \/ str_less(k, o)
         IN  <<m>> \o sorted_keys(S \ {m})

suffixed(c, other_columns, suffix) ==
    IF c \in other_columns THEN c \o suffix ELSE c

merge_columns(left, right) ==
    {"pmid"}
    \cup {suffixed(c, right.columns, "_pubmed") : c \in left.columns \ {"pmid"}}
    \cup {suffixed(c, left.columns, "_semantic") : c \in right.columns \ {"pmid"}}

\* l and r are <<>> (no row of this key on that side) or <<row>>
merge_row(key, l, r, left, right) ==
    [n \in merge_columns(left, right) |->
        IF n = "pmid" THEN key
        ELSE IF \E c \in left.columns \ {"pmid"} :
                    suffixed(c, right.columns, "_pubmed") = n
             THEN LET c == CHOOSE c \in left.columns \ {"pmid"} :
                               suffixed(c, right.columns, "_pubmed") = n
                  IN  IF l = <<>> THEN NaN ELSE l[1][c]
             ELSE LET c == CHOOSE c \in right.columns \ {"pmid"} :
                               suffixed(c, left.columns, "_semantic") = n
                  IN  IF r = <<>> THEN NaN ELSE r[1][c]]

RECURSIVE RowsOfKey(_, _)
RowsOfKey(rows, key) ==
    IF rows = <<>> THEN <<>>
    ELSE IF Head(rows)["pmid"] = key
         THEN <<Head(rows)>> \o RowsOfKey(Tail(rows), key)
         ELSE RowsOfKey(Tail(rows), key)

RECURSIVE Flatten(_)
Flatten(ss) == IF ss = <<>> THEN <<>> ELSE Head(ss) \o Flatten(Tail(ss))

merge_key(key, left, right) ==
    LET ls == RowsOfKey(left.rows, key)
        rs == RowsOfKey(right.rows, key)
    IN  IF rs = <<>>
        THEN [i \in 1..Len(ls) |-> merge_row(key, <<ls[i]>>, <<>>, left, right)]
        ELSE IF ls = <<>>
        THEN [j \in 1..Len(rs) |-> merge_row(key, <<>>, <<rs[j]>>, left, right)]
        ELSE Flatten([i \in 1..Len(ls) |->
                        [j \in 1..Len(rs) |->
                            merge_row(key, <<ls[i]>>, <<rs[j]>>, left, right)]])

merge(left, right) ==
    LET keys == sorted_keys(ColumnSet(left, "pmid") \cup ColumnSet(right, "pmid"))
    IN  DataFrame(merge_columns(left, right),
                  Flatten([k \in 1..Len(keys) |-> merge_key(keys[k], left, right)]))

\* row.get(col): None, which pd.notna rejects like NaN, when the column is missing
row_get(row, col) == IF col \in DOMAIN row THEN row[col] ELSE NaN

\* the selection of lines 464-495 with the two sources exchanged
prefer_semantic(row, field) ==
    IF notna(row_get(row, field \o "_semantic"))
    THEN row_get(row, field \o "_semantic")
    ELSE row_get(row, field \o "_pubmed")

\* lines 464-495: the PubMed value when it is not missing, else Semantic Scholar's
prefer_pubmed(row, field) ==
    IF notna(row_get(row, field \o "_pubmed"))
    THEN row_get(row, field \o "_pubmed")
    ELSE row_get(row, field \o "_semantic")

\* lines 496-503: Semantic Scholar's citation count, 0 when it is missing
citation_count(row) ==
    IF notna(row_get(row, "citation_count_semantic"))
    THEN row_get(row, "citation_count_semantic")
    ELSE <<"0">>

columns_to_drop ==
    {"title_pubmed", "title_semantic", "abstract_pubmed", "abstract_semantic",
     "year_pubmed", "year_semantic", "authors_pubmed", "authors_semantic"}

selected == {"title", "abstract", "year", "authors", "citation_count"}

\* lines 464-518 on one merged row
select_best(row) ==
    [c \in (DOMAIN row \cup selected) \ columns_to_drop |->
        CASE c = "citation_count" -> citation_count(row)
          [] c \in selected \ {"citation_count"} -> prefer_pubmed(row, c)
          [] OTHER -> row[c]]

\* lines 451-521 without the merge on the identifier: the rows of both frames
merged_df_without_merge(pubmed_df, filtered_semantic_df) ==
    IF ~empty(pubmed_df) /\ ~empty(filtered_semantic_df)
    THEN concat(pubmed_df, filtered_semantic_df)
    ELSE IF ~empty(pubmed_df) THEN pubmed_df ELSE filtered_semantic_df

\* lines 451-521
merged_df(pubmed_df, filtered_semantic_df) ==
    IF ~empty(pubmed_df) /\ ~empty(filtered_semantic_df)
    THEN LET m == merge(pubmed_df, filtered_semantic_df)
         IN  DataFrame((m.columns \cup selected) \ columns_to_drop,
                       [i \in 1..Len(m.rows) |-> select_best(m.rows[i])])
    ELSE IF ~empty(pubmed_df) THEN pubmed_df ELSE filtered_semantic_df

(***************************************************************************)
(* Lines 558-583: a row of the deduplicated frame as a paper of the        *)
(* response.                                                               *)
(***************************************************************************)
digits == {"0", "1", "2", "3", "4", "5", "6", "7", "8", "9"}

isdigit(s) == s /= <<>> /\ \A i \in 1..Len(s) : s[i] \in digits

RECURSIVE int(_)
int(s) ==
    IF s = <<>> THEN 0
    ELSE 10 * int(SubSeq(s, 1, Len(s) - 1)) + (ord(s[Len(s)]) - 48)

RECURSIVE split(_, _, _)
split(s, sep, piece) ==
    IF s = <<>> THEN <<piece>>
    ELSE IF Head(s) = sep THEN <<piece>> \o split(Tail(s), sep, <<>>)
    ELSE split(Tail(s), sep, Append(piece, Head(s)))

RECURSIVE strip(_)
strip(s) ==
    IF s = <<>> THEN s
    ELSE IF Head(s) = " " THEN strip(Tail(s))
    ELSE IF s[Len(s)] = " " THEN strip(SubSeq(s, 1, Len(s) - 1))
    ELSE s

RECURSIVE stripped_non_empty(_)
stripped_non_empty(pieces) ==
    IF pieces = <<>> THEN <<>>
    ELSE IF strip(Head(pieces)) = <<>> THEN stripped_non_empty(Tail(pieces))
    ELSE <<strip(Head(pieces))>> \o stripped_non_empty(Tail(pieces))

optional(v) == IF notna(v) THEN <<v>> ELSE <<>>

paper_fields == <<"title", "year", "authors", "abstract", "url",
                  "citation_count", "pdf_url">>

\* the exception building the paper of a row raises, "" when it raises none
RECURSIVE paper_error(_, _)
paper_error(row, k) ==
    IF k > Len(paper_fields) THEN ""
    ELSE LET f == paper_fields[k]
         IN  IF f \notin DOMAIN row THEN "KeyError"
             ELSE IF f = "authors" /\ ~notna(row[f]) THEN "AttributeError"
             ELSE IF f = "citation_count" /\ notna(row[f]) /\ ~isdigit(row[f])
                  THEN "ValueError"
             ELSE paper_error(row, k + 1)

paper(row) ==
    [title |-> row["title"],
     year |-> IF notna(row["year"]) /\ isdigit(row["year"])
              THEN <<int(row["year"])>> ELSE <<>>,
     authors |-> stripped_non_empty(split(row["authors"], ",", <<>>)),
     abstract |-> optional(row["abstract"]),
     url |-> optional(row["url"]),
     citation_count |-> IF notna(row["citation_count"])
                        THEN int(row["citation_count"]) ELSE 0,
     pdf_url |-> IF notna(row["pdf_url"]) /\ row["pdf_url"] /= <<"N", "/", "A">>
                 THEN <<row["pdf_url"]>> ELSE <<>>]

\* the first exception of the loop of lines 559-583, "" when it completes
RECURSIVE papers_error(_)
papers_error(rows) ==
    IF rows = <<>> THEN ""
    ELSE IF paper_error(Head(rows), 1) /= "" THEN paper_error(Head(rows), 1)
    ELSE papers_error(Tail(rows))

(***************************************************************************)
(* search_papers, lines 446-583: the reconciliation of the two frames.     *)
(* The result holds the handler's locals; error names the exception that   *)
(* ended it ("" for none) and the locals it did not reach are <<>>.        *)
(***************************************************************************)
filtered_semantic(semantic_df) ==
    DataFrame(semantic_df.columns, SelectRows(semantic_df.rows, "pmid", FALSE))

non_pubmed(semantic_df) ==
    DataFrame(semantic_df.columns, SelectRows(semantic_df.rows, "pmid", TRUE))

\* the statistics of lines 527-551 without len(non_pubmed_df) in line 539
statistics_without_non_pubmed(pubmed_df, filtered_semantic_df, non_pubmed_df, full_df, deduplicated) ==
    LET pubmed_pmids == ColumnSet(pubmed_df, "pmid")
        semantic_pmids == ColumnSet(filtered_semantic_df, "pmid")
        overlapping_pmids == pubmed_pmids \cap semantic_pmids
    IN  [overlapping_pmids |-> overlapping_pmids,
         unique_to_pubmed |-> Cardinality(pubmed_pmids \ semantic_pmids),
         unique_to_semantic |-> Cardinality(semantic_pmids \ pubmed_pmids),
         duplicate_count |-> Cardinality(overlapping_pmids)
                             + (Len(full_df.rows) - Len(deduplicated.rows))]

statistics(pubmed_df, filtered_semantic_df, non_pubmed_df, full_df, deduplicated) ==
    LET pubmed_pmids == ColumnSet(pubmed_df, "pmid")
        semantic_pmids == ColumnSet(filtered_semantic_df, "pmid")
        overlapping_pmids == pubmed_pmids \cap semantic_pmids
    IN  [overlapping_pmids |-> overlapping_pmids,
         unique_to_pubmed |-> Cardinality(pubmed_pmids \ semantic_pmids),
         unique_to_semantic |-> Len(non_pubmed_df.rows)
                                + Cardinality(semantic_pmids \ pubmed_pmids),
         duplicate_count |-> Cardinality(overlapping_pmids)
                             + (Len(full_df.rows) - Len(deduplicated.rows))]

\* lines 541-583, from the deduplicated frame on
reconcile_papers(full_df, stats, deduplicated) ==
    IF papers_error(deduplicated.rows) /= ""
    THEN [error |-> papers_error(deduplicated.rows), line |-> 560,
          full_df |-> <<full_df>>, statistics |-> <<stats>>,
          deduplicated |-> <<deduplicated>>, papers |-> <<>>]
    ELSE [error |-> "", line |-> 585, full_df |-> <<full_df>>,
          statistics |-> <<stats>>, deduplicated |-> <<deduplicated>>,
          papers |-> <<[i \in 1..Len(deduplicated.rows) |->
                           paper(deduplicated.rows[i])]>>]

reconcile_stats(pubmed_df, filtered_semantic_df, non_pubmed_df, full_df, deduplicated) ==
    reconcile_papers(full_df,
                     statistics(pubmed_df, filtered_semantic_df, non_pubmed_df,
                                full_df, deduplicated),
                     deduplicated)

\* lines 527-551, from the candidate pool on
reconcile_pool(pubmed_df, filtered_semantic_df, non_pubmed_df, full_df) ==
    IF "pmid" \notin pubmed_df.columns
    THEN [error |-> "KeyError", line |-> 528, full_df |-> <<full_df>>,
          statistics |-> <<>>, deduplicated |-> <<>>, papers |-> <<>>]
    ELSE reconcile_stats(pubmed_df, filtered_semantic_df, non_pubmed_df,
                         full_df, deduplicate_papers(full_df))

reconcile(pubmed_df, semantic_df) ==
    IF "pmid" \notin semantic_df.columns
    THEN [error |-> "KeyError", line |-> 446, full_df |-> <<>>,
          statistics |-> <<>>, deduplicated |-> <<>>, papers |-> <<>>]
    ELSE reconcile_pool(pubmed_df, filtered_semantic(semantic_df),
                        non_pubmed(semantic_df),
                        concat(merged_df(pubmed_df, filtered_semantic(semantic_df)),
                               non_pubmed(semantic_df)))

(***************************************************************************)
(* SearchCache: an OrderedDict as the sequence of its entries in insertion *)
(* order; t is datetime.now().                                             *)
(***************************************************************************)
expired(entry, t) == t - entry.timestamp > expiry_hours

SearchCache_cleanup_expired(entries, t) ==
    SelectSeq(entries, LAMBDA e : ~expired(e, t))

Position(entries, search_id) ==
    IF \E i \in 1..Len(entries) : entries[i].search_id = search_id
    THEN CHOOSE i \in 1..Len(entries) : entries[i].search_id = search_id
    ELSE 0

\* self.cache[search_id] = value: a new key goes last, a key already there
\* keeps its place
SetItem(entries, entry) ==
    LET i == Position(entries, entry.search_id)
    IN  IF i = 0 THEN Append(entries, entry)
        ELSE [entries EXCEPT ![i] = entry]

\* popitem(last=False)
PopFirst(entries) == Tail(entries)

\* SearchCache.add without the eviction of lines 31-32
SearchCache_add_without_eviction(entries, df, search_id, t) ==
    SetItem(SearchCache_cleanup_expired(entries, t),
            [search_id |-> search_id, df |-> df, timestamp |-> t])

SearchCache_add(entries, df, search_id, t) ==
    LET cleaned == SearchCache_cleanup_expired(entries, t)
        room == IF Len(cleaned) >= max_size THEN PopFirst(cleaned) ELSE cleaned
    IN  SetItem(room, [search_id |-> search_id, df |-> df, timestamp |-> t])

\* SearchCache.get moving the entry it returns to the end (move_to_end)
SearchCache_get_refreshing_order(entries, search_id, t) ==
    LET i == Position(entries, search_id)
    IN  IF i = 0 THEN [cache |-> entries, result |-> <<>>]
        ELSE IF expired(entries[i], t)
        THEN [cache |-> SelectSeq(entries, LAMBDA e : e.search_id /= search_id),
              result |-> <<>>]
        ELSE [cache |-> Append(SelectSeq(entries,
                                         LAMBDA e : e.search_id /= search_id),
                               entries[i]),
              result |-> <<entries[i].df>>]

\* SearchCache.get without the del of line 43
SearchCache_get_keeping_expired(entries, search_id, t) ==
    LET i == Position(entries, search_id)
    IN  IF i = 0 \/ expired(entries[i], t)
        THEN [cache |-> entries, result |-> <<>>]
        ELSE [cache |-> entries, result |-> <<entries[i].df>>]

\* SearchCache.get restarting the lifetime of the entry it returns
SearchCache_get_touching(entries, search_id, t) ==
    LET i == Position(entries, search_id)
    IN  IF i = 0 THEN [cache |-> entries, result |-> <<>>]
        ELSE IF expired(entries[i], t)
        THEN [cache |-> SelectSeq(entries, LAMBDA e : e.search_id /= search_id),
              result |-> <<>>]
        ELSE [cache |-> [entries EXCEPT ![i].timestamp = t],
              result |-> <<entries[i].df>>]

\* the cache after the call and the value returned: <<>> for None
SearchCache_get(entries, search_id, t) ==
    LET i == Position(entries, search_id)
    IN  IF i = 0 THEN [cache |-> entries, result |-> <<>>]
        ELSE IF expired(entries[i], t)
        THEN [cache |-> SelectSeq(entries, LAMBDA e : e.search_id /= search_id),
              result |-> <<>>]
        ELSE [cache |-> entries, result |-> <<entries[i].df>>]

(***************************************************************************)
(* The handlers' try/except: the response for an exception raised inside   *)
(* the try block.  HTTPException is a subclass of Exception, so the        *)
(* handlers' "except Exception" clauses catch it too.                      *)
(***************************************************************************)
search_papers_except(exc) ==
    IF exc = "ValueError" THEN 400 ELSE 500

export_results_except(exc) == 500

\* export_results, lines 612-629: the status of the response for the value
\* SearchCache.get returned
export_results_status(df) ==
    IF df = <<>> THEN export_results_except("HTTPException") ELSE 200

(***************************************************************************)
(* The frames the two source adapters hand to search_papers.               *)
(***************************************************************************)

Pmids == {<<"1">>, <<"2">>}
Citations == {<<"7">>, <<"1", "2">>}

\* create_article_dict
pubmed_columns == {"pmid", "url", "title", "abstract", "authors", "year"}

pubmed_row(pmid, title) ==
    [pmid |-> pmid, url |-> <<"u">> \o pmid, title |-> title,
     abstract |-> <<"p">>, authors |-> <<"A", ",", " ", "B">>,
     year |-> <<"2", "0">>]

\* the frame of get_pubmed_article_details when no record could be read
pubmed_empty_columns == {"pmid", "title", "abstract", "authors", "year"}

\* paper_data of fetch_semantic_scholar_papers
semantic_columns == {"title", "scholar_id", "abstract", "pdf_url", "authors",
                     "year", "pmid", "citation_count_semantic"}

semantic_row(pmid, title, citations) ==
    [title |-> title, scholar_id |-> <<"s">>, abstract |-> <<"q">>,
     pdf_url |-> NA, authors |-> <<"C">>, year |-> NA, pmid |-> pmid,
     citation_count_semantic |-> citations]

SeqsUpTo(S, n) == UNION {[1..k -> S] : k \in 0..n}

PubmedFrames(titles, n) ==
    {NoColumns, DataFrame(pubmed_empty_columns, <<>>)}
    \cup {DataFrame(pubmed_columns, rows) :
            rows \in SeqsUpTo({pubmed_row(p, t) : p \in Pmids, t \in titles}, n)
                     \ {<<>>}}

SemanticFrames(titles, citations, n) ==
    {NoColumns}
    \cup {DataFrame(semantic_columns, rows) :
            rows \in SeqsUpTo({semantic_row(p, t, k) : p \in Pmids \cup {NA},
                                  t \in titles, k \in citations}, n) \ {<<>>}}

(***************************************************************************)
(* The service: the handlers run on one event loop, so a handler runs      *)
(* without interruption except where it awaits (line 438).                 *)
(***************************************************************************)
VARIABLES
    cache,      \* search_cache.cache
    now,        \* the clock, in hours
    hist,       \* every entry SearchCache.add stored, in order
    pc,         \* where each client's search_papers call stands
    pending,    \* pubmed_df of a search_papers call that awaits
    resp        \* the response of the last request that ended

vars == <<cache, now, hist, pc, pending, resp>>

Clients == 1..NClients
Handles == 1..MaxPuts

Issued == {hist[i].search_id : i \in 1..Len(hist)}
Stored == {cache[i].search_id : i \in 1..Len(cache)}

\* uuid.uuid4(): a handle that was never issued before; which one it is makes
\* no difference to the cache, so the handles are numbered as they are issued
uuid4 == Len(hist) + 1

Init ==
    /\ cache = <<>>
    /\ now = 0
    /\ hist = <<>>
    /\ pc = [c \in Clients |-> "idle"]
    /\ pending = [c \in Clients |-> NoColumns]
    /\ resp = [op |-> "none"]

Tick ==
    /\ now < MaxTime
    /\ now' = now + 1
    /\ UNCHANGED <<cache, hist, pc, pending, resp>>

\* search_papers up to its await: lines 413-437
SearchStart(c, frames) ==
    /\ pc[c] = "idle"
    /\ Len(hist) < MaxPuts
    /\ \E dates \in {"valid", "reversed", "malformed"} :
         IF dates = "valid"
         THEN \E pubmed_df \in frames :
                /\ pc' = [pc EXCEPT ![c] = "await"]
                /\ pending' = [pending EXCEPT ![c] = pubmed_df]
                /\ UNCHANGED <<cache, now, hist, resp>>
         ELSE /\ resp' = [op |-> "search",
                          status |-> search_papers_except(
                              IF dates = "malformed" THEN "ValueError"
                              ELSE "HTTPException"),
                          reconciled |-> <<>>, search_id |-> <<>>]
              /\ UNCHANGED <<cache, now, hist, pc, pending>>

\* search_papers from its await on: lines 438-605
SearchFinish(c, frames) ==
    /\ pc[c] = "await"
    /\ pc' = [pc EXCEPT ![c] = "idle"]
    /\ pending' = [pending EXCEPT ![c] = NoColumns]
    /\ UNCHANGED now
    /\ \/ \* fetch_semantic_scholar_papers raises its HTTPException
          /\ resp' = [op |-> "search",
                      status |-> search_papers_except("HTTPException"),
                      reconciled |-> <<>>, search_id |-> <<>>]
          /\ UNCHANGED <<cache, hist>>
       \/ \E semantic_df \in frames :
            \E r \in {reconcile(pending[c], semantic_df)} :
            LET request == [pubmed_df |-> pending[c], semantic_df |-> semantic_df]
            IN  IF r.error /= ""
                THEN /\ resp' = [op |-> "search",
                                 status |-> search_papers_except(r.error),
                                 reconciled |-> <<request, r>>,
                                 search_id |-> <<>>]
                     /\ UNCHANGED <<cache, hist>>
                ELSE \E search_id \in {uuid4} \cap Handles :
                       /\ cache' = SearchCache_add(cache, r.deduplicated[1],
                                                   search_id, now)
                       /\ hist' = Append(hist, [search_id |-> search_id,
                                                df |-> r.deduplicated[1],
                                                timestamp |-> now])
                       /\ resp' = [op |-> "search",
                                   status |-> 200,
                                   reconciled |-> <<request, r>>,
                                   search_id |-> <<search_id>>]

\* export_results: lines 608-629
Export(c, search_id) ==
    /\ pc[c] = "idle"
    /\ LET g == SearchCache_get(cache, search_id, now)
       IN  /\ cache' = g.cache
           /\ resp' = [op |-> "export", at |-> now,
                       search_id |-> search_id, df |-> g.result,
                       status |-> export_results_status(g.result)]
    /\ UNCHANGED <<now, hist, pc, pending>>

ServicePubmedFrames ==
    {DataFrame(pubmed_columns, <<pubmed_row(<<"1">>, Title1)>>)}
ServiceSemanticFrames ==
    {NoColumns,
     DataFrame(semantic_columns, <<semantic_row(<<"1">>, Title1x, <<"7">>)>>),
     DataFrame(semantic_columns, <<semantic_row(<<"2">>, Title3, <<"7">>)>>)}

Next ==
    \/ Tick
    \/ \E c \in Clients : SearchStart(c, ServicePubmedFrames)
    \/ \E c \in Clients : SearchFinish(c, ServiceSemanticFrames)
    \/ \E c \in Clients, h \in Handles : Export(c, h)

Spec == Init /\ [][Next]_vars

(***************************************************************************)
(* One search_papers call over every pair of frames within the bounds.     *)
(***************************************************************************)
ReconcileStart ==
    /\ resp.op = "none"
    /\ SearchStart(1, PubmedFrames({Title1, Title2}, MaxA))

ReconcileFinish ==
    /\ resp.op = "none"
    /\ SearchFinish(1, SemanticFrames({Title1x, Title3}, Citations, MaxB))

NextReconcile == ReconcileStart \/ ReconcileFinish

SpecReconcile == Init /\ [][NextReconcile]_vars

(***************************************************************************)
(* The result cache.                                                       *)
(***************************************************************************)
HistEntry(search_id) ==
    hist[CHOOSE j \in 1..Len(hist) : hist[j].search_id = search_id]

\* C1: the cache never holds more than max_size entries, and in every
\* state, also while other requests are in flight, each entry is one that a
\* completed SearchCache.add stored, under a handle of its own.
C1_AtMostMaxSize ==
    /\ Len(cache) <= max_size
    /\ \A i \in 1..Len(cache) : \E j \in 1..Len(hist) : cache[i] = hist[j]
    /\ \A i, k \in 1..Len(cache) :
         cache[i].search_id = cache[k].search_id => i = k

C1_Witness ==
    /\ Len(cache) = max_size
    /\ Len(hist) > max_size
    /\ \E c \in Clients : pc[c] = "await"

NoneExpired == \A j \in 1..Len(hist) : ~expired(hist[j], now)

Retrievable(search_id) == SearchCache_get(cache, search_id, now).result /= <<>>

\* C2: while no entry has expired, the handles that SearchCache.get still
\* returns are the max_size most recently inserted ones, whatever lookups
\* were made in between, and a lookup that returns a result leaves the
\* entries and their order as they were.
C2_InsertionOrderEviction ==
    /\ [](NoneExpired =>
            \A j \in 1..Len(hist) :
                Retrievable(hist[j].search_id) <=> j > Len(hist) - max_size)
    /\ [][\A c \in Clients, h \in Handles :
            Export(c, h) /\ resp'.df /= <<>> => cache' = cache]_vars

C2_Witness ==
    /\ Len(hist) = max_size + 1
    /\ NoneExpired
    /\ resp.op = "export"
    /\ resp.search_id = hist[1].search_id
    /\ resp.df = <<>>
    /\ \A j \in 2..Len(hist) : Retrievable(hist[j].search_id)

\* C3: a lookup of a handle whose entry is older than the time-to-live
\* returns None and the entry is gone from the cache for good, and a lookup
\* that returns a result returns one whose age is within the time-to-live.
C3_Expiry ==
    resp.op = "export" =>
        /\ \A j \in 1..Len(hist) :
             hist[j].search_id = resp.search_id
             /\ resp.at - hist[j].timestamp > expiry_hours
             => resp.df = <<>> /\ resp.search_id \notin Stored
        /\ resp.df /= <<>> =>
             \E j \in 1..Len(hist) :
                /\ hist[j].search_id = resp.search_id
                /\ resp.at - hist[j].timestamp <= expiry_hours

C3_Witness ==
    /\ Len(hist) = 1
    /\ resp.op = "export"
    /\ resp.search_id = hist[1].search_id
    /\ resp.at - hist[1].timestamp > expiry_hours
    /\ resp.df = <<>>
    /\ cache = <<>>

\* C4: an export of a handle that SearchCache.get does not return (unknown,
\* expired or evicted) is answered with the not-found status 404.
C4_NotFoundIs404 ==
    resp.op = "export" /\ resp.df = <<>> => resp.status = 404

\* C5: a lookup that returns a result returns the frame that was stored
\* under the handle, every entry of the cache is still the frame and the
\* timestamp SearchCache.add stored, and no handle is handed out twice.
C5_ExactResult ==
    /\ resp.op = "export" /\ resp.df /= <<>> =>
         /\ resp.search_id \in Issued
         /\ resp.df = <<HistEntry(resp.search_id).df>>
    /\ \A i \in 1..Len(cache) :
         /\ cache[i].search_id \in Issued
         /\ cache[i] = HistEntry(cache[i].search_id)
         /\ ~expired(cache[i], now) =>
              SearchCache_get(cache, cache[i].search_id, now).result
                = <<HistEntry(cache[i].search_id).df>>
    /\ \A j, k \in 1..Len(hist) : hist[j].search_id = hist[k].search_id => j = k

C5_Witness ==
    /\ Len(hist) >= 2
    /\ hist[1].df /= hist[2].df
    /\ resp.op = "export"
    /\ resp.search_id = hist[1].search_id
    /\ resp.df = <<hist[1].df>>
    /\ resp.at > hist[2].timestamp

(***************************************************************************)
(* The reconciliation.                                                     *)
(***************************************************************************)
\* a search_papers call that reached the reconciliation has ended
Reconciled == resp.op = "search" /\ resp.reconciled /= <<>>

PubmedRows == resp.reconciled[1].pubmed_df.rows
SemanticRows == resp.reconciled[1].semantic_df.rows
Locals == resp.reconciled[2]

WithId(rows, id) == SelectSeq(rows, LAMBDA r : r["pmid"] = id)

IdsA == {PubmedRows[i]["pmid"] : i \in 1..Len(PubmedRows)}
IdsB == {SemanticRows[i]["pmid"] : i \in 1..Len(SemanticRows)} \ {NA}
SharedIds == IdsA \cap IdsB

DistinctIds ==
    /\ \A id \in IdsA : Len(WithId(PubmedRows, id)) = 1
    /\ \A id \in IdsB : Len(WithId(SemanticRows, id)) = 1

Pool == Locals.full_df[1].rows
Deduplicated == Locals.deduplicated[1].rows
Statistics == Locals.statistics[1]

\* C6: a search over frames of which one or both are empty ends without an
\* error.
C6_EmptySourceIsNoError ==
    Reconciled /\ (PubmedRows = <<>> \/ SemanticRows = <<>>) =>
        Locals.error = "" /\ resp.status = 200

MergedFrom(row, a, b) ==
    /\ row["title"] = a["title"]
    /\ row["abstract"] = a["abstract"]
    /\ row["year"] = a["year"]
    /\ row["authors"] = a["authors"]
    /\ row["citation_count"] = b["citation_count_semantic"]

\* C7 as stated: for every identifier of both sources the candidate pool
\* holds exactly one record, with source A's title, abstract, year and
\* authors and source B's citation count.
C7_OneMergedRecordPerIdentifier ==
    Reconciled =>
        \A id \in SharedIds :
            /\ Locals.full_df /= <<>>
            /\ Len(WithId(Pool, id)) = 1
            /\ MergedFrom(WithId(Pool, id)[1], WithId(PubmedRows, id)[1],
                          WithId(SemanticRows, id)[1])

\* C7 amended: for every identifier of both sources the candidate pool
\* holds one record per pair of a source-A record and a source-B record of
\* that identifier, with the source-A record's title, abstract, year and
\* authors and the source-B record's citation count.
C7_OneMergedRecordPerPair ==
    Reconciled =>
        \A id \in SharedIds :
            LET a == WithId(PubmedRows, id)
                b == WithId(SemanticRows, id)
            IN  /\ Locals.full_df /= <<>>
                /\ Len(WithId(Pool, id)) = Len(a) * Len(b)
                /\ \A i \in 1..Len(a), j \in 1..Len(b) :
                     MergedFrom(WithId(Pool, id)[(i - 1) * Len(b) + j], a[i], b[j])

C7_Witness ==
    /\ Reconciled
    /\ \E id \in SharedIds :
         /\ Len(WithId(PubmedRows, id)) = 1
         /\ Len(WithId(SemanticRows, id)) = 1
         /\ WithId(PubmedRows, id)[1]["title"] /= WithId(SemanticRows, id)[1]["title"]
         /\ WithId(Pool, id)[1]["title"] = WithId(PubmedRows, id)[1]["title"]
         /\ WithId(Pool, id)[1]["citation_count"] = <<"1", "2">>

Matches(i, j) == compare_paper_titles(Pool[i]["title"], Pool[j]["title"])

ChainOfThree ==
    /\ Reconciled
    /\ Locals.deduplicated /= <<>>
    /\ Len(Pool) = 3
    /\ Matches(1, 2)
    /\ Matches(2, 3)
    /\ ~Matches(1, 3)

\* C8 as stated: a pool of three candidates of which the first matches the
\* second and the second the third, but not the first the third, is
\* deduplicated to the first candidate alone.
C8_ChainCollapsesToOne ==
    ChainOfThree => Deduplicated = <<Pool[1]>>

\* C8 amended: such a pool is deduplicated to its first and third
\* candidates: the second is discarded by the first, and the third survives
\* because a discarded candidate is never the source of a comparison.
C8_ChainKeepsFirstAndThird ==
    ChainOfThree => Deduplicated = <<Pool[1], Pool[3]>>

C8_Witness ==
    /\ ChainOfThree
    /\ Deduplicated = <<Pool[1], Pool[3]>>

\* C9 as stated: in the statistics of a search, unique_to_a + unique_to_b
\* + 2 * |shared identifiers| is the number of source-A records plus the
\* number of source-B records.
C9_CountsEveryRecord ==
    Reconciled /\ resp.status = 200 =>
        Statistics.unique_to_pubmed + Statistics.unique_to_semantic
            + 2 * Cardinality(SharedIds)
        = Len(PubmedRows) + Len(SemanticRows)

\* C9 amended: the equation holds when no identifier occurs twice within a
\* source.
C9_CountsEveryRecordOfDistinctIds ==
    Reconciled /\ Locals.statistics /= <<>> /\ DistinctIds =>
        Statistics.unique_to_pubmed + Statistics.unique_to_semantic
            + 2 * Cardinality(SharedIds)
        = Len(PubmedRows) + Len(SemanticRows)

C9_Witness ==
    /\ Reconciled
    /\ Locals.statistics /= <<>>
    /\ DistinctIds
    /\ SharedIds /= {}
    /\ Statistics.unique_to_pubmed > 0
    /\ Statistics.unique_to_semantic > 0
    /\ \E i \in 1..Len(SemanticRows) : SemanticRows[i]["pmid"] = NA

\* C10: duplicate_count is the number of shared identifiers plus the number
\* of candidates the deduplication removed from the pool, and when no
\* identifier occurs twice within a source the number of output records is
\* the number of input records less duplicate_count.
C10_DuplicateCount ==
    Reconciled /\ Locals.statistics /= <<>> =>
        /\ Statistics.duplicate_count
             = Cardinality(SharedIds) + (Len(Pool) - Len(Deduplicated))
        /\ DistinctIds =>
             Len(Deduplicated)
               = Len(PubmedRows) + Len(SemanticRows) - Statistics.duplicate_count
        /\ Locals.papers /= <<>> => Len(Locals.papers[1]) = Len(Deduplicated)

C10_Witness ==
    /\ Reconciled
    /\ resp.status = 200
    /\ DistinctIds
    /\ SharedIds /= {}
    /\ Len(Pool) > Len(Deduplicated)
    /\ Len(Locals.papers[1]) = Len(Deduplicated)

(***************************************************************************)
(* normalize_title on its own: one call on a title, then one call on the   *)
(* result of the first.  The titles are all strings of at most MaxTitleLen *)
(* characters over letters, punctuation and the characters of the          *)
(* mis-encoded sequence, and the missing value (which str() spells "nan"). *)
(***************************************************************************)
TitleChars == {"a", "A", "!", "acirc", "Acirc", "euro"}

InputTitles == SeqsUpTo(TitleChars, MaxTitleLen) \cup {NaN}

NormalizeTitle(title) ==
    /\ resp.op = "none"
    /\ resp' = [op |-> "normalize_title", title |-> title,
                result |-> normalize_title(title)]
    /\ UNCHANGED <<cache, now, hist, pc, pending>>

NormalizeTitleAgain ==
    /\ resp.op = "normalize_title"
    /\ resp' = [op |-> "normalize_title again", title |-> resp.title,
                once |-> resp.result, result |-> normalize_title(resp.result)]
    /\ UNCHANGED <<cache, now, hist, pc, pending>>

NextNormalize ==
    \/ \E title \in InputTitles : NormalizeTitle(title)
    \/ NormalizeTitleAgain

SpecNormalize == Init /\ [][NextNormalize]_vars

\* C11: normalize_title is idempotent: normalizing the normalized form of a
\* title, also of one that holds the characters of the removed sequence,
\* gives the normalized form again.
C11_Idempotent ==
    resp.op = "normalize_title again" => resp.result = resp.once

(***************************************************************************)
(* The records that reconciliation only carries along.                     *)
(***************************************************************************)
NonPubmedRows == WithId(SemanticRows, NA)

\* the candidates that survive the deduplication of the pool, by position
Kept ==
    keep_mask([i \in 1..Len(Pool) |-> normalized(Pool[i]["title"])], 1,
              [i \in 1..Len(Pool) |-> TRUE])

\* the position in the output of the surviving candidate at position i
OutputOf(i) == Cardinality({j \in 1..i : Kept[j]})

\* the input record that the candidate at position i of the pool carries:
\* a source-B record without identifier (they follow the merged records, in
\* their order), a source-A record whose identifier source B does not have
\* (the records of one identifier keep their order), or <<>> for the others
PassedThrough(i) ==
    LET merged == Len(Pool) - Len(NonPubmedRows)
        id == Pool[i]["pmid"]
    IN  IF i > merged THEN <<NonPubmedRows[i - merged]>>
        ELSE IF id \in IdsA \ IdsB
        THEN <<WithId(PubmedRows, id)[
                   Cardinality({j \in 1..i : Pool[j]["pmid"] = id})]>>
        ELSE <<>>

SameFields(out, in) ==
    /\ out["title"] = in["title"]
    /\ out["abstract"] = in["abstract"]
    /\ out["authors"] = in["authors"]
    /\ out["year"] = in["year"]

\* the citation count is a field of the source-B records only
SameCitationCount(out, out_paper, in) ==
    "citation_count_semantic" \in DOMAIN in =>
        /\ row_get(out, "citation_count") = in["citation_count_semantic"]
        /\ out_paper.citation_count = int(in["citation_count_semantic"])

\* C12: in a search that succeeds, a source-A record whose identifier
\* source B does not have and a source-B record without identifier that
\* survive the deduplication appear in the output with the title, abstract,
\* authors, year and citation count of the input record.
C12_PassThroughUnchanged ==
    Reconciled /\ resp.status = 200 =>
        \A i \in 1..Len(Pool) :
            Kept[i] /\ PassedThrough(i) /= <<>> =>
                /\ SameFields(Deduplicated[OutputOf(i)], PassedThrough(i)[1])
                /\ SameCitationCount(Deduplicated[OutputOf(i)],
                                     Locals.papers[1][OutputOf(i)],
                                     PassedThrough(i)[1])

(***************************************************************************)
(* deduplicate_papers as a whole.                                          *)
(***************************************************************************)
\* the score of the normalized titles of the candidates at positions i and j
TitleScore(i, j) ==
    score(normalized(Pool[i]["title"]), normalized(Pool[j]["title"]))

\* candidate j scores >= 98 against an earlier candidate that survives
MatchesEarlierSurvivor(survives, j) ==
    \E i \in 1..(j - 1) : survives[i] /\ TitleScore(i, j) >= 98

\* who survives among the first n candidates when a candidate is discarded
\* exactly if it scores >= 98 against an earlier candidate that survives
RECURSIVE GreedySurvivors(_)
GreedySurvivors(n) ==
    IF n = 0 THEN <<>>
    ELSE CHOOSE survives \in
             {Append(earlier, ~MatchesEarlierSurvivor(earlier, n)) :
                 earlier \in {GreedySurvivors(n - 1)}} : TRUE

\* C13: the deduplicated frame is the candidate pool, in its order and with
\* its columns, less the candidates that score >= 98 against an earlier
\* candidate that survives; the first candidate survives, a discarded
\* candidate discards no other, and no two survivors match each other.
C13_GreedySubsequence ==
    Reconciled /\ Locals.deduplicated /= <<>> =>
        /\ Locals.deduplicated[1].columns = Locals.full_df[1].columns
        /\ \E survives \in {GreedySurvivors(Len(Pool))} :
             /\ Deduplicated = MaskRows(Pool, survives)
             /\ Len(Pool) > 0 => Deduplicated[1] = Pool[1]
             /\ \A j \in 1..Len(Pool) :
                  ~survives[j] => \E i \in 1..(j - 1) :
                                     survives[i] /\ TitleScore(i, j) >= 98
             /\ \A i, j \in 1..Len(Pool) :
                  i < j /\ survives[i] /\ survives[j] => TitleScore(i, j) < 98

\* a successful search in whose pool a discarded candidate, whose title is
\* not the first candidate's, matches a later candidate that survives
C13_Witness ==
    /\ Reconciled
    /\ resp.status = 200
    /\ Len(Deduplicated) >= 2
    /\ \E j, k \in 1..Len(Pool) :
         /\ j < k
         /\ Pool[j] \notin {Deduplicated[n] : n \in 1..Len(Deduplicated)}
         /\ Pool[k] \in {Deduplicated[n] : n \in 1..Len(Deduplicated)}
         /\ TitleScore(j, k) >= 98
         /\ Pool[j]["title"] /= Pool[1]["title"]

=============================================================================
